---- MODULE Spec2Model ----
(***************************************************************************)
(* Model of the reactive core of src/vue.js: observe / defineReactive      *)
(* (getter and setter of a tracked property), Dep (addSub, notify),        *)
(* Watcher (constructor, update) and the path accessors getValue/setValue. *)
(*                                                                         *)
(* The data tree is a heap of objects with identity; every own property is *)
(* a slot that is either a plain data property (dep = 0) or an accessor    *)
(* installed by defineReactive (dep > 0: the Dep captured by the closure). *)
(* A Dep's subs is a JavaScript Set: insertion ordered, no duplicates, and *)
(* Set.prototype.forEach visits elements added while it is running.        *)
(* JavaScript is synchronous: external operations (a caller's setValue,    *)
(* getValue or new Watcher) start only when the call stack is empty; a     *)
(* notification is stepped one update() call at a time.                    *)
(***************************************************************************)
EXTENDS Integers, Sequences, FiniteSets, TLC

VARIABLES heap, subs, DepTarget, watchers, stack, calls, op, lastNotify, nops

vars == <<heap, subs, DepTarget, watchers, stack, calls, op, lastNotify, nops>>

(* ------------------------------ bounds --------------------------------- *)

\* number of external operations (setValue / getValue / new Watcher) in a run
MaxOps == 4

(* ------------------------------ values --------------------------------- *)

Keys == {"a", "b", "c", "d", "p", "x", "y"}

\* the order in which Object.keys lists the keys of the objects of the model
KeyOrder == <<"a", "b", "c", "d", "p", "x", "y">>

Undef == [t |-> "undef", v |-> 0]

Null == [t |-> "null", v |-> 0]

Prim(n) == [t |-> "prim", v |-> n]

ObjV(o) == [t |-> "obj", v |-> o]

NoSlot == [has |-> FALSE, val |-> Undef, dep |-> 0]

PlainSlot(v) == [has |-> TRUE, val |-> v, dep |-> 0]

EmptyObj == [k \in Keys |-> NoSlot]

Range(s) == {s[i] : i \in 1..Len(s)}

Front(s) == SubSeq(s, 1, Len(s) - 1)

Last(s) == s[Len(s)]

\* the object held by vm.$data
Root == 1

(* ----------------------------- Dep.addSub ------------------------------ *)

\* addSub with a fault: subs is a list, every registration adds an entry
addSubList(sb, d, w) == [sb EXCEPT ![d] = Append(@, w)]

\* this.subs.add(sub): a Set keeps one entry per observer, in insertion order
addSub(sb, d, w) ==
    IF w \in Range(sb[d]) THEN sb ELSE [sb EXCEPT ![d] = Append(@, w)]

(* ------------------------ defineReactive: get -------------------------- *)

\* reading property k of object o; an accessor registers Dep.target if set
Get(h, sb, tgt, o, k) ==
    LET s == h[o][k] IN
    [sb  |-> IF s.dep # 0 /\ tgt # 0 THEN addSub(sb, s.dep, tgt) ELSE sb,
     val |-> IF s.has THEN s.val ELSE Undef]

(* ------------------------------ getValue ------------------------------- *)

RECURSIVE WalkLeafOnly(_, _, _, _, _)
\* Walk with a fault: only the read of the last segment registers Dep.target
WalkLeafOnly(h, sb, tgt, cur, path) ==
    IF path = <<>> THEN [sb |-> sb, val |-> cur, threw |-> FALSE]
    ELSE IF cur.t \in {"undef", "null"} THEN [sb |-> sb, val |-> Undef, threw |-> TRUE]
    ELSE IF cur.t = "prim" THEN WalkLeafOnly(h, sb, tgt, Undef, Tail(path))
    ELSE LET r == Get(h, sb, IF Tail(path) = <<>> THEN tgt ELSE 0, cur.v, Head(path))
         IN  WalkLeafOnly(h, r.sb, tgt, r.val, Tail(path))

RECURSIVE WalkStrict(_, _, _, _, _)
\* Walk with a fault: a property read of a primitive throws as well
WalkStrict(h, sb, tgt, cur, path) ==
    IF path = <<>> THEN [sb |-> sb, val |-> cur, threw |-> FALSE]
    ELSE IF cur.t # "obj" THEN [sb |-> sb, val |-> Undef, threw |-> TRUE]
    ELSE LET r == Get(h, sb, tgt, cur.v, Head(path))
         IN  WalkStrict(h, r.sb, tgt, r.val, Tail(path))

RECURSIVE Walk(_, _, _, _, _)
\* path.reduce((o, k) => o[k], cur): reading a property of undefined or null
\* throws a TypeError; reading one of a primitive number yields undefined
Walk(h, sb, tgt, cur, path) ==
    IF path = <<>> THEN [sb |-> sb, val |-> cur, threw |-> FALSE]
    ELSE IF cur.t \in {"undef", "null"} THEN [sb |-> sb, val |-> Undef, threw |-> TRUE]
    ELSE IF cur.t = "prim" THEN Walk(h, sb, tgt, Undef, Tail(path))
    ELSE LET r == Get(h, sb, tgt, cur.v, Head(path))
         IN  Walk(h, r.sb, tgt, r.val, Tail(path))

getValue(h, sb, tgt, path) == Walk(h, sb, tgt, ObjV(Root), path)

(* ----------------------- observe / defineReactive ---------------------- *)

RECURSIVE observe(_, _, _)
RECURSIVE ObserveKeys(_, _, _, _)
RECURSIVE defineReactive(_, _, _, _)

\* a state st is [heap, subs]; tgt is Dep.target while the code runs
observe(st, tgt, v) ==
    IF v.t # "obj" THEN st ELSE ObserveKeys(st, tgt, v.v, KeyOrder)

\* Object.keys(obj).forEach(key => defineReactive(obj, key, obj[key]))
ObserveKeys(st, tgt, o, ks) ==
    IF ks = <<>> THEN st
    ELSE IF ~st.heap[o][Head(ks)].has THEN ObserveKeys(st, tgt, o, Tail(ks))
    ELSE ObserveKeys(defineReactive(st, tgt, o, Head(ks)), tgt, o, Tail(ks))

\* obj[key] is read (through an accessor already there), a new Dep is made,
\* the value is observed and the property is redefined around the new Dep
defineReactive(st, tgt, o, k) ==
    LET r  == Get(st.heap, st.subs, tgt, o, k)
        d  == Len(r.sb) + 1
        s1 == [heap |-> st.heap, subs |-> Append(r.sb, <<>>)]
        s2 == observe(s1, tgt, r.val)
    IN  [s2 EXCEPT !.heap[o][k] = [has |-> TRUE, val |-> r.val, dep |-> d]]

(* ------------------------------ the data ------------------------------- *)

\* data: { a: { b: { c: 1, d: 1 } }, p: 1 } as the caller builds it
PlainData ==
    << [EmptyObj EXCEPT !["a"] = PlainSlot(ObjV(2)), !["p"] = PlainSlot(Prim(1))],
       [EmptyObj EXCEPT !["b"] = PlainSlot(ObjV(3))],
       [EmptyObj EXCEPT !["c"] = PlainSlot(Prim(1)), !["d"] = PlainSlot(Prim(1))] >>

\* Vue.initData: observe(this.$data)
initData == observe([heap |-> PlainData, subs |-> <<>>], 0, ObjV(Root))

(* ------------------------- defineReactive: set ------------------------- *)

\* set with a fault: the value is stored and observed, dep.notify() is left out
setSilent(st, tgt, o, k, newVal) ==
    IF newVal = st.heap[o][k].val THEN [st |-> st, dep |-> 0]
    ELSE [st  |-> observe([st EXCEPT !.heap[o][k].val = newVal], tgt, newVal),
          dep |-> 0]

\* set with a fault: no test of newVal === value (the setter as README.md prints it)
setNoCheck(st, tgt, o, k, newVal) ==
    [st  |-> observe([st EXCEPT !.heap[o][k].val = newVal], tgt, newVal),
     dep |-> st.heap[o][k].dep]

\* set with a fault: the new value is stored and notified but not observed
setNoObserve(st, tgt, o, k, newVal) ==
    IF newVal = st.heap[o][k].val THEN [st |-> st, dep |-> 0]
    ELSE [st  |-> [st EXCEPT !.heap[o][k].val = newVal],
          dep |-> st.heap[o][k].dep]

\* set(newVal) of the accessor of slot (o, k): nothing when newVal === value;
\* otherwise store, observe(newVal) and report the Dep to notify (0: none)
set(st, tgt, o, k, newVal) ==
    IF newVal = st.heap[o][k].val THEN [st |-> st, dep |-> 0]
    ELSE [st  |-> observe([st EXCEPT !.heap[o][k].val = newVal], tgt, newVal),
          dep |-> st.heap[o][k].dep]

\* the assignment with a fault: a key that has no accessor is not written
AssignDrop(st, tgt, o, k, newVal) ==
    IF st.heap[o][k].dep # 0 THEN set(st, tgt, o, k, newVal)
    ELSE [st |-> st, dep |-> 0]

\* target[lastKey] = newVal on an object: through the accessor when the slot
\* has one, otherwise an ordinary data property is written or created
Assign(st, tgt, o, k, newVal) ==
    IF st.heap[o][k].dep # 0 THEN set(st, tgt, o, k, newVal)
    ELSE [st |-> [st EXCEPT !.heap[o][k] = PlainSlot(newVal)], dep |-> 0]

(* ------------------------------ setValue ------------------------------- *)

\* setValue with a fault: the last key is not popped off before the walk, so
\* the assignment is made on the value the whole path leads to
setValueNoPop(st, tgt, path, newVal, strict) ==
    LET r  == Walk(st.heap, st.subs, tgt, ObjV(Root), path)
        s1 == [heap |-> st.heap, subs |-> r.sb]
        no == [st |-> s1, threw |-> TRUE, dep |-> 0, obj |-> 0, slot |-> NoSlot, at |-> s1]
    IN  IF r.threw \/ r.val.t \in {"undef", "null"} THEN no
        ELSE IF r.val.t = "prim" THEN [no EXCEPT !.threw = strict]
        ELSE LET a == Assign(s1, tgt, r.val.v, Last(path), newVal)
             IN  [st |-> a.st, threw |-> FALSE, dep |-> a.dep, obj |-> r.val.v,
                  slot |-> st.heap[r.val.v][Last(path)], at |-> s1]

\* keys.reduce((o, k) => o[k], obj) then target[lastKey] = newVal.
\* strict: whether the script runs in strict mode (assigning a property of a
\* primitive is ignored in sloppy mode and a TypeError in strict mode).
\* Yields the new [heap, subs], whether it threw and the Dep to notify; for
\* the record also the container assigned into (obj, 0 when the path led to
\* no object), the slot as it was before the assignment (slot) and the
\* [heap, subs] at the moment of the assignment (at).
setValue(st, tgt, path, newVal, strict) ==
    LET r  == Walk(st.heap, st.subs, tgt, ObjV(Root), Front(path))
        s1 == [heap |-> st.heap, subs |-> r.sb]
        no == [st |-> s1, threw |-> TRUE, dep |-> 0, obj |-> 0, slot |-> NoSlot, at |-> s1]
    IN  IF r.threw \/ r.val.t \in {"undef", "null"} THEN no
        ELSE IF r.val.t = "prim" THEN [no EXCEPT !.threw = strict]
        ELSE LET a == Assign(s1, tgt, r.val.v, Last(path), newVal)
             IN  [st |-> a.st, threw |-> FALSE, dep |-> a.dep, obj |-> r.val.v,
                  slot |-> st.heap[r.val.v][Last(path)], at |-> s1]

(* --------------------------- Watcher constructor ----------------------- *)

\* the constructor with a fault: Dep.target is never set back to null
WatcherKeepTarget(st, w, exp) ==
    LET r == getValue(st.heap, st.subs, w, exp)
    IN  [subs |-> r.sb, threw |-> r.threw, target |-> w]

\* Dep.target = this; getValue(vm.$data, exp); Dep.target = null.
\* No try/finally: when getValue throws, Dep.target stays the new watcher.
Watcher(st, w, exp) ==
    LET r == getValue(st.heap, st.subs, w, exp)
    IN  [subs |-> r.sb, threw |-> r.threw, target |-> IF r.threw THEN w ELSE 0]

(* -------------------------- the tree, as data -------------------------- *)

RECURSIVE ValueAt(_, _, _)
\* the value the property reads of path arrive at from cur, accessors left
\* aside: undefined wherever a read finds no property (a missing key, a
\* property of a primitive) or has nothing to read from (undefined, null)
ValueAt(h, cur, path) ==
    IF path = <<>> THEN cur
    ELSE IF cur.t # "obj" THEN ValueAt(h, Undef, Tail(path))
    ELSE ValueAt(h, IF h[cur.v][Head(path)].has THEN h[cur.v][Head(path)].val ELSE Undef, Tail(path))

\* the container of the last segment of exp (0: the path leads to no object)
ContainerOf(h, exp) ==
    LET c == ValueAt(h, ObjV(Root), Front(exp)) IN IF c.t = "obj" THEN c.v ELSE 0

(* ----------------------------- Watcher.update -------------------------- *)

\* the callback cb of watcher w called with arg: "plain" keeps the value;
\* "mkOnce" on its first call also runs new Watcher(vm, exp, plain)
Callback(h, sb, tgt, ws, w, arg) ==
    IF ws[w].cb = "mkOnce" /\ ~ws[w].fired
    THEN LET c == Watcher([heap |-> h, subs |-> sb], Len(ws) + 1, ws[w].exp)
         IN  [subs |-> c.subs, target |-> c.target, threw |-> c.threw,
              watchers |-> Append([ws EXCEPT ![w].fired = TRUE],
                                  [exp |-> ws[w].exp, cb |-> "plain", fired |-> FALSE,
                                   ok |-> ~c.threw, at |-> ContainerOf(h, ws[w].exp)])]
    ELSE [subs |-> sb, target |-> tgt, threw |-> FALSE, watchers |-> ws]

\* update with a fault: the value re-read is not handed to the callback
updateNoArg(h, sb, tgt, ws, w) ==
    LET r == getValue(h, sb, tgt, ws[w].exp)
    IN  IF r.threw
        THEN [subs |-> r.sb, target |-> tgt, threw |-> TRUE, watchers |-> ws,
              called |-> FALSE, arg |-> Undef]
        ELSE LET c == Callback(h, r.sb, tgt, ws, w, Undef)
             IN  [subs |-> c.subs, target |-> c.target, threw |-> c.threw,
                  watchers |-> c.watchers, called |-> TRUE, arg |-> Undef]

\* update with a fault: an error of the re-read is caught and dropped
updateCatch(h, sb, tgt, ws, w) ==
    LET r == getValue(h, sb, tgt, ws[w].exp)
    IN  IF r.threw
        THEN [subs |-> r.sb, target |-> tgt, threw |-> FALSE, watchers |-> ws,
              called |-> FALSE, arg |-> Undef]
        ELSE LET c == Callback(h, r.sb, tgt, ws, w, r.val)
             IN  [subs |-> c.subs, target |-> c.target, threw |-> c.threw,
                  watchers |-> c.watchers, called |-> TRUE, arg |-> r.val]

\* this.cb(getValue(this.vm.$data, this.exp)): the re-read runs the accessors
\* with whatever Dep.target holds; when it throws, cb is not called
update(h, sb, tgt, ws, w) ==
    LET r == getValue(h, sb, tgt, ws[w].exp)
    IN  IF r.threw
        THEN [subs |-> r.sb, target |-> tgt, threw |-> TRUE, watchers |-> ws,
              called |-> FALSE, arg |-> Undef]
        ELSE LET c == Callback(h, r.sb, tgt, ws, w, r.val)
             IN  [subs |-> c.subs, target |-> c.target, threw |-> c.threw,
                  watchers |-> c.watchers, called |-> TRUE, arg |-> r.val]

(* ------------------------------ inputs --------------------------------- *)

PA == <<"a">>

PAB == <<"a", "b">>

PABC == <<"a", "b", "c">>

PABCX == <<"a", "b", "c", "x">>

PAX == <<"a", "x">>

PAXY == <<"a", "x", "y">>

PP == <<"p">>

\* the observers callers construct: an expression and a callback. "plain"
\* only receives the value; "mkOnce" on its first call also constructs a plain
\* observer on its own expression
WatchInputs ==
    {[exp |-> e, cb |-> "plain"] : e \in {PA, PABC, PABCX, PAX, PAXY}}
    \cup {[exp |-> PABC, cb |-> "mkOnce"]}

ReadPaths == {PABC, PABCX, PAXY}

WritePaths == {PA, PABC, PAX, PP}

\* what a caller writes: a primitive, null, a fresh object literal
\* {b: {c: 1, d: 1}} ("sub") or the object it reads from data.a ("refA")
ValueSpecs ==
    {[k |-> "val", v |-> Prim(1)], [k |-> "val", v |-> Prim(2)], [k |-> "val", v |-> Null],
     [k |-> "sub", v |-> Undef], [k |-> "refA", v |-> Undef]}

\* evaluation of the argument before the call: an object literal allocates
\* plain objects, data.a is read through the accessor of a
Materialize(h, sb, tgt, vs) ==
    LET n    == Len(h)
        leaf == [EmptyObj EXCEPT !["c"] = PlainSlot(Prim(1)), !["d"] = PlainSlot(Prim(1))]
        ra   == Get(h, sb, tgt, Root, "a")
    IN  CASE vs.k = "sub"  -> [h |-> h \o << leaf, [EmptyObj EXCEPT !["b"] = PlainSlot(ObjV(n + 1))] >>,
                               sb |-> sb, val |-> ObjV(n + 2)]
          [] vs.k = "refA" -> [h |-> h, sb |-> ra.sb, val |-> ra.val]
          [] OTHER         -> [h |-> h, sb |-> sb, val |-> vs.v]

RECURSIVE Reach(_, _)
\* the objects reachable from object o through property values
Reach(h, o) ==
    {o} \cup UNION {Reach(h, h[o][k].val.v) : k \in {x \in Keys : h[o][x].has /\ h[o][x].val.t = "obj"}}

\* writes that would make the data cyclic are left out: observe would not
\* return on a cyclic tree
Acyclic(h, path, val) ==
    LET c == ValueAt(h, ObjV(Root), Front(path))
    IN  (val.t = "obj" /\ c.t = "obj") => c.v \notin Reach(h, val.v)

(* ------------------------------- state --------------------------------- *)

NoNotify == [dep |-> 0, snap |-> <<>>, seen |-> <<>>]

NoCalls == [i \in 1..Len(watchers) |-> [n |-> 0, arg |-> Undef]]

NoOp ==
    [kind |-> "init", path |-> <<>>, val |-> Undef, result |-> "returned",
     obj |-> 0, existed |-> FALSE, tracked |-> 0, pre |-> Undef, preSubs |-> <<>>,
     atSet |-> [heap |-> <<>>, subs |-> <<>>], w |-> 0]

Init ==
    /\ heap = initData.heap
    /\ subs = initData.subs
    /\ DepTarget = 0
    /\ watchers = <<>>
    /\ stack = <<>>
    /\ calls = <<>>
    /\ op = NoOp
    /\ lastNotify = NoNotify
    /\ nops = 0

Idle == stack = <<>> /\ nops < MaxOps

(* ------------------------- external operations ------------------------- *)

\* a caller runs setValue(vm.$data, path, value)
ExtWrite(path, vs, strict) ==
    /\ Idle
    /\ \E m \in {Materialize(heap, subs, DepTarget, vs)} :
       /\ Acyclic(m.h, path, m.val)
       /\ vs.k = "refA" => m.val.t = "obj"
       /\ \E res \in {setValue([heap |-> m.h, subs |-> m.sb], DepTarget, path, m.val, strict)} :
          /\ strict => res.threw
          /\ heap' = res.st.heap
          /\ subs' = res.st.subs
          /\ stack' = IF res.dep # 0
                      THEN << [dep |-> res.dep, idx |-> 1, snap |-> res.st.subs[res.dep], seen |-> <<>>] >>
                      ELSE <<>>
          /\ op' = [kind |-> "write", path |-> path, val |-> m.val,
                    result |-> IF res.threw THEN "threw"
                               ELSE IF res.dep # 0 THEN "running" ELSE "returned",
                    obj |-> res.obj, existed |-> res.slot.has, tracked |-> res.slot.dep,
                    pre |-> res.slot.val,
                    preSubs |-> IF res.slot.dep # 0 THEN res.at.subs[res.slot.dep] ELSE <<>>,
                    atSet |-> res.at, w |-> 0]
    /\ calls' = NoCalls
    /\ lastNotify' = NoNotify
    /\ nops' = nops + 1
    /\ UNCHANGED <<DepTarget, watchers>>

\* a caller runs new Watcher(vm, exp, cb)
ExtNew(exp, cb) ==
    /\ Idle
    /\ \E w \in {Len(watchers) + 1} :
       \E r \in {Watcher([heap |-> heap, subs |-> subs], w, exp)} :
           /\ subs' = r.subs
           /\ DepTarget' = r.target
           /\ watchers' = Append(watchers, [exp |-> exp, cb |-> cb, fired |-> FALSE, ok |-> ~r.threw,
                                        at |-> ContainerOf(heap, exp)])
           /\ op' = [NoOp EXCEPT !.kind = "new", !.path = exp, !.w = w,
                                 !.result = IF r.threw THEN "threw" ELSE "returned"]
    /\ calls' = Append(NoCalls, [n |-> 0, arg |-> Undef])
    /\ lastNotify' = NoNotify
    /\ nops' = nops + 1
    /\ UNCHANGED <<heap, stack>>

\* a caller runs getValue(vm.$data, path)
ExtRead(path) ==
    /\ Idle
    /\ \E r \in {getValue(heap, subs, DepTarget, path)} :
           /\ subs' = r.sb
           /\ op' = [NoOp EXCEPT !.kind = "read", !.path = path, !.val = r.val,
                                 !.result = IF r.threw THEN "threw" ELSE "returned"]
    /\ calls' = NoCalls
    /\ lastNotify' = NoNotify
    /\ nops' = nops + 1
    /\ UNCHANGED <<heap, DepTarget, watchers, stack>>

(* ----------------------------- Dep.notify ------------------------------ *)

\* one turn of this.subs.forEach(sub => sub.update()): the next entry of the
\* live Set is visited; update() re-reads the expression and calls cb(value).
\* An error leaves through every frame to the caller of the write.
NotifyStep ==
    /\ stack # <<>>
    /\ Head(stack).idx <= Len(subs[Head(stack).dep])
    /\ \E f \in {Head(stack)} :
       \E w \in {subs[f.dep][f.idx]} :
       \E r \in {update(heap, subs, DepTarget, watchers, w)} :
       \E f2 \in {[f EXCEPT !.idx = f.idx + 1, !.seen = Append(f.seen, w)]} :
          /\ subs' = r.subs
          /\ DepTarget' = r.target
          /\ watchers' = r.watchers
          /\ calls' = LET c1 == IF r.called
                                THEN [calls EXCEPT ![w] = [n |-> @.n + 1, arg |-> r.arg]]
                                ELSE calls
                      IN  c1 \o [i \in 1..(Len(r.watchers) - Len(watchers)) |-> [n |-> 0, arg |-> Undef]]
          /\ stack' = IF r.threw THEN <<>> ELSE <<f2>> \o Tail(stack)
          /\ op' = IF r.threw THEN [op EXCEPT !.result = "threw"] ELSE op
          /\ lastNotify' = IF r.threw THEN [dep |-> f.dep, snap |-> f.snap, seen |-> f2.seen]
                           ELSE lastNotify
    /\ UNCHANGED <<heap, nops>>

\* forEach has run out of entries: notify returns to the setter, which returns
NotifyReturn ==
    /\ stack # <<>>
    /\ LET f == Head(stack) IN
       /\ f.idx > Len(subs[f.dep])
       /\ lastNotify' = [dep |-> f.dep, snap |-> f.snap, seen |-> f.seen]
       /\ stack' = Tail(stack)
       /\ op' = IF Tail(stack) = <<>> THEN [op EXCEPT !.result = "returned"] ELSE op
    /\ UNCHANGED <<heap, subs, DepTarget, watchers, calls, nops>>

Next ==
    \/ \E path \in WritePaths : \E vs \in ValueSpecs : \E strict \in BOOLEAN :
          ExtWrite(path, vs, strict)
    \/ \E i \in WatchInputs : ExtNew(i.exp, i.cb)
    \/ \E path \in ReadPaths : ExtRead(path)
    \/ NotifyStep
    \/ NotifyReturn

Spec == Init /\ [][Next]_vars

(* ------------------------------ data proxy ----------------------------- *)

\* Object.keys(this.$data) when the Vue instance is built
ProxyKeys == {k \in Keys : initData.heap[Root][k].has}

\* get of the accessor proxyData defines on vm: this.$data[key]
proxyGet(h, sb, tgt, k) == Get(h, sb, tgt, Root, k)

\* the proxy's set with a fault: the value is put into the slot directly,
\* past the accessor of $data
proxySetDirect(st, tgt, k, newVal) ==
    [st |-> [st EXCEPT !.heap[Root][k].val = newVal], dep |-> 0]

\* set of the accessor proxyData defines on vm: this.$data[key] = newVal
proxySet(st, tgt, k, newVal) == Assign(st, tgt, Root, k, newVal)

\* a caller runs vm[k] = value
ProxyWrite(k, vs) ==
    /\ Idle
    /\ \E m \in {Materialize(heap, subs, DepTarget, vs)} :
       /\ Acyclic(m.h, <<k>>, m.val)
       /\ vs.k = "refA" => m.val.t = "obj"
       /\ \E pre \in {[heap |-> m.h, subs |-> m.sb]} :
          \E res \in {proxySet(pre, DepTarget, k, m.val)} :
          /\ heap' = res.st.heap
          /\ subs' = res.st.subs
          /\ stack' = IF res.dep # 0
                      THEN << [dep |-> res.dep, idx |-> 1, snap |-> res.st.subs[res.dep], seen |-> <<>>] >>
                      ELSE <<>>
          /\ op' = [kind |-> "pwrite", path |-> <<k>>, val |-> m.val,
                    result |-> IF res.dep # 0 THEN "running" ELSE "returned",
                    obj |-> Root, existed |-> m.h[Root][k].has, tracked |-> m.h[Root][k].dep,
                    pre |-> m.h[Root][k].val,
                    preSubs |-> IF m.h[Root][k].dep # 0 THEN m.sb[m.h[Root][k].dep] ELSE <<>>,
                    atSet |-> pre, w |-> 0]
    /\ calls' = NoCalls
    /\ lastNotify' = NoNotify
    /\ nops' = nops + 1
    /\ UNCHANGED <<DepTarget, watchers>>

\* a caller reads vm[k]
ProxyRead(k) ==
    /\ Idle
    /\ \E r \in {proxyGet(heap, subs, DepTarget, k)} :
           /\ subs' = r.sb
           /\ op' = [NoOp EXCEPT !.kind = "pread", !.path = <<k>>, !.val = r.val,
                                 !.result = "returned"]
    /\ calls' = NoCalls
    /\ lastNotify' = NoNotify
    /\ nops' = nops + 1
    /\ UNCHANGED <<heap, DepTarget, watchers, stack>>

\* the instance used through its proxy, with observers on its data
NextProxy ==
    \/ \E k \in ProxyKeys : \E vs \in ValueSpecs : ProxyWrite(k, vs)
    \/ \E k \in ProxyKeys : ProxyRead(k)
    \/ \E i \in WatchInputs : ExtNew(i.exp, i.cb)
    \/ NotifyStep
    \/ NotifyReturn

SpecProxy == Init /\ [][NextProxy]_vars

(* --------------------------- sibling writes ---------------------------- *)

PABD == <<"a", "b", "d">>

SiblingPaths == {PA, PABC, PABD, PP}

\* the operations of Spec with writes to a.b.d, the sibling of a.b.c
NextSiblings ==
    \/ \E path \in SiblingPaths : \E vs \in ValueSpecs : \E strict \in BOOLEAN :
          ExtWrite(path, vs, strict)
    \/ \E i \in WatchInputs : ExtNew(i.exp, i.cb)
    \/ \E path \in ReadPaths : ExtRead(path)
    \/ NotifyStep
    \/ NotifyReturn

SpecSiblings == Init /\ [][NextSiblings]_vars

(* -------------------------- callbacks that write ----------------------- *)

\* frames of notify the call stack has room for; one more is a RangeError
MaxDepth == 3

\* callbacks that run setValue(vm.$data, exp, v) on the path they observe:
\* "wrOne" writes 1, "wrTwo" writes 2, "wrNext" writes 2 when handed 1 and 1
\* when handed anything else
WriterKinds == {"wrOne", "wrTwo", "wrNext"}

WriteBack(cb, arg) ==
    CASE cb = "wrOne"  -> Prim(1)
      [] cb = "wrTwo"  -> Prim(2)
      [] OTHER         -> IF arg = Prim(1) THEN Prim(2) ELSE Prim(1)

\* the entry forEach visits next belongs to an observer whose callback writes
TopWrites ==
    /\ stack # <<>>
    /\ Head(stack).idx <= Len(subs[Head(stack).dep])
    /\ watchers[subs[Head(stack).dep][Head(stack).idx]].cb \in WriterKinds

\* one turn of forEach on an observer whose callback does not write
NotifyPlain == ~TopWrites /\ NotifyStep

\* one turn of forEach on an observer whose callback writes: update()
\* re-reads, the callback runs setValue, and a changing write re-enters
\* dep.notify() under the frame of the forEach that is running. No frame is
\* left past MaxDepth: the RangeError leaves through every frame.
NotifyWriter ==
    /\ TopWrites
    /\ \E f \in {Head(stack)} :
       \E w \in {subs[f.dep][f.idx]} :
       \E r \in {getValue(heap, subs, DepTarget, watchers[w].exp)} :
       \E f2 \in {[f EXCEPT !.idx = f.idx + 1, !.seen = Append(f.seen, w)]} :
       \E res \in {IF r.threw
                    THEN [st |-> [heap |-> heap, subs |-> r.sb], threw |-> TRUE, dep |-> 0]
                    ELSE setValue([heap |-> heap, subs |-> r.sb], DepTarget, watchers[w].exp,
                                  WriteBack(watchers[w].cb, r.val), FALSE)} :
       \E over \in {~res.threw /\ res.dep # 0 /\ Len(stack) >= MaxDepth} :
          /\ heap' = res.st.heap
          /\ subs' = res.st.subs
          /\ calls' = IF r.threw THEN calls
                      ELSE [calls EXCEPT ![w] = [n |-> @.n + 1, arg |-> r.val]]
          /\ stack' = IF res.threw \/ over THEN <<>>
                      ELSE IF res.dep = 0 THEN <<f2>> \o Tail(stack)
                      ELSE << [dep |-> res.dep, idx |-> 1, snap |-> res.st.subs[res.dep],
                               seen |-> <<>>], f2 >> \o Tail(stack)
          /\ op' = IF res.threw THEN [op EXCEPT !.result = "threw"]
                   ELSE IF over THEN [op EXCEPT !.result = "overflow"]
                   ELSE op
          /\ lastNotify' = IF res.threw \/ over
                           THEN [dep |-> f.dep, snap |-> f.snap, seen |-> f2.seen]
                           ELSE lastNotify
    /\ UNCHANGED <<DepTarget, watchers, nops>>

LoopPaths == {PABC}

LoopWatchInputs == {[exp |-> e, cb |-> c] : e \in LoopPaths, c \in {"plain"} \cup WriterKinds}

LoopValues == {vs \in ValueSpecs : vs.k = "val"}

\* observers of a.b.c whose callbacks write a.b.c, and writes of a.b.c
NextLoop ==
    \/ \E path \in LoopPaths : \E vs \in LoopValues : ExtWrite(path, vs, FALSE)
    \/ \E i \in LoopWatchInputs : ExtNew(i.exp, i.cb)
    \/ NotifyPlain
    \/ NotifyWriter
    \/ NotifyReturn

\* the core is synchronous: a notification under way runs on until it
\* returns or an error leaves it
SpecLoop ==
    /\ Init /\ [][NextLoop]_vars
    /\ WF_vars(NotifyPlain) /\ WF_vars(NotifyWriter) /\ WF_vars(NotifyReturn)

(* ------------------------------ claims --------------------------------- *)

\* the operation the caller started has come back to it
Done == stack = <<>>

\* the last operation was a setValue whose assignment went through an accessor
WroteTracked == op.kind = "write" /\ op.tracked # 0

Changed == op.val # op.pre

\* the Deps observer w is registered in
DepsOf(w) == {d \in 1..Len(subs) : w \in Range(subs[d])}

\* the re-read of observer w's expression finds its way in heap h
Resolves(h, w) == ~getValue(h, subs, 0, watchers[w].exp).threw

RECURSIVE PathDeps(_, _, _)
\* the Deps of the tracked slots the reads of path pass through from cur
PathDeps(h, cur, path) ==
    IF path = <<>> \/ cur.t # "obj" THEN {}
    ELSE LET s == h[cur.v][Head(path)]
         IN  (IF s.dep # 0 THEN {s.dep} ELSE {})
             \cup PathDeps(h, IF s.has THEN s.val ELSE Undef, Tail(path))

\* C1 as stated: after a write of a primitive v2 over a primitive v1 on a
\* tracked property, every observer that was in the slot's subscriber set has
\* had its callback invoked exactly once.
C1_ExactlyOnce ==
    (Done /\ WroteTracked /\ Changed /\ op.pre.t = "prim" /\ op.val.t = "prim")
        => \A w \in Range(op.preSubs) : calls[w].n = 1

\* C1 as amended: each observer that was in the slot's subscriber set when
\* the write began gets its callback exactly once if its own re-read and the
\* re-reads of the observers before it in the set (in insertion order) succeed,
\* and not at all otherwise: the first re-read that throws ends the
\* notification.
C1_OnceUntilThrow ==
    (Done /\ WroteTracked /\ Changed /\ op.pre.t = "prim" /\ op.val.t = "prim")
        => \A i \in 1..Len(op.preSubs) :
              calls[op.preSubs[i]].n =
                  IF \A j \in 1..i : Resolves(heap, op.preSubs[j]) THEN 1 ELSE 0

\* C1 witness: a primitive was written over a primitive on a slot whose set
\* held an observer that was called back and, after it, an observer whose
\* constructor had thrown and whose re-read threw again
C1_Witness ==
    /\ Done /\ WroteTracked /\ Changed /\ op.pre.t = "prim" /\ op.val.t = "prim"
    /\ \E i, j \in 1..Len(op.preSubs) :
          /\ i < j
          /\ calls[op.preSubs[i]].n = 1
          /\ ~watchers[op.preSubs[j]].ok
          /\ calls[op.preSubs[j]].n = 0

C4_TargetNull == DepTarget = 0

\* C5: a notification that has returned has called update() on exactly the
\* observers that were in the set when it started, each once, in order.
C5_Snapshot ==
    (Done /\ op.kind = "write" /\ op.result = "returned" /\ lastNotify.dep # 0)
        => lastNotify.seen = lastNotify.snap

\* the values getValue passes through before its last property read
Intermediates(h, path) ==
    {ValueAt(h, ObjV(Root), SubSeq(path, 1, i)) : i \in 1..(Len(path) - 1)}

C7_RoundTrip ==
    (Done /\ op.kind = "write" /\ op.obj # 0 /\ op.existed)
        => /\ ~getValue(heap, subs, DepTarget, op.path).threw
           /\ getValue(heap, subs, DepTarget, op.path).val = op.val
           /\ (op.tracked # 0 /\ Changed) => lastNotify.dep = op.tracked

\* C7 witness: a changing write through "a.b.c" to a tracked slot with a
\* subscriber has come back
C7_Witness ==
    /\ Done /\ WroteTracked /\ Changed /\ op.path = PABC /\ op.existed
    /\ op.preSubs # <<>>
    /\ lastNotify.dep = op.tracked
    /\ ValueAt(heap, ObjV(Root), PABC) = op.val

\* C8: a value-changing write at path p that returns has called the callback
\* of every observer successfully constructed with path p, whatever writes
\* came before.
C8_EveryObserverOfPath ==
    (Done /\ WroteTracked /\ Changed /\ op.result = "returned")
        => \A w \in 1..Len(watchers) :
              (watchers[w].ok /\ watchers[w].exp = op.path) => calls[w].n >= 1

\* the objects allocated by a caller's object literal after initData
Fresh(o) == o > Len(PlainData)

\* C9: an observer successfully constructed on a path into a freshly assigned
\* object, its leaf being a tracked slot of that object, is called back by
\* each later value-changing write to that leaf that returns.
C9_FreshLeafObserved ==
    (Done /\ WroteTracked /\ Changed /\ op.result = "returned" /\ Fresh(op.obj))
        => \A w \in 1..Len(watchers) :
              (watchers[w].ok /\ watchers[w].exp = op.path /\ watchers[w].at = op.obj)
                  => calls[w].n >= 1

\* C10: when a value-changing write at path p notifies observers bound to p,
\* each such observer whose update() ran had its callback run once, with the
\* value just written; and when the write returns, update() ran on every
\* observer bound to p that was in the slot's subscriber set.
C10_BothGetNewValue ==
    (Done /\ WroteTracked /\ Changed)
        => /\ \A w \in Range(lastNotify.seen) :
                watchers[w].exp = op.path
                    => calls[w].n = 1 /\ calls[w].arg = op.val
           /\ op.result = "returned"
                => \A w \in Range(op.preSubs) :
                      watchers[w].exp = op.path => w \in Range(lastNotify.seen)

\* C10 witness: one write has returned after calling back two observers of
\* its path, each with the value written
C10_Witness ==
    /\ Done /\ WroteTracked /\ Changed /\ op.result = "returned"
    /\ \E w1, w2 \in Range(op.preSubs) :
          /\ w1 # w2
          /\ watchers[w1].exp = op.path /\ watchers[w2].exp = op.path
          /\ calls[w1].n = 1 /\ calls[w1].arg = op.val
          /\ calls[w2].n = 1 /\ calls[w2].arg = op.val

\* C11: a write to a key that its container did not have when it was
\* intercepted (the slot has no accessor) stores the value as a plain
\* property, returns without an error, starts no notification, invokes no
\* callback (observers built on that path included) and leaves every
\* subscriber set as the traversal left it.
C11_UntrackedWrite ==
    (op.kind = "write" /\ op.obj # 0 /\ op.tracked = 0)
        => /\ op.result = "returned"
           /\ stack = <<>>
           /\ lastNotify = NoNotify
           /\ heap[op.obj][Last(op.path)] = PlainSlot(op.val)
           /\ ValueAt(heap, ObjV(Root), op.path) = op.val
           /\ \A w \in 1..Len(watchers) : calls[w].n = 0
           /\ subs = op.atSet.subs

\* an observer was built on a.x while a had no key x, then a.x was written
C11_Witness ==
    /\ op.kind = "write" /\ op.path = PAX /\ op.tracked = 0 /\ ~op.existed
    /\ op.val # Undef
    /\ \E w \in 1..Len(watchers) :
          watchers[w].exp = PAX /\ watchers[w].ok /\ calls[w].n = 0

\* what setValue(vm.$data, <<k>>, value) makes of the current state, set
\* against the state a proxy write has led to
SameAsSetValue(k, vs) ==
    \E m \in {Materialize(heap, subs, DepTarget, vs)} :
    \E res \in {setValue([heap |-> m.h, subs |-> m.sb], DepTarget, <<k>>, m.val, TRUE)} :
        /\ ~res.threw
        /\ heap' = res.st.heap
        /\ subs' = res.st.subs
        /\ stack' = IF res.dep # 0
                    THEN << [dep |-> res.dep, idx |-> 1, snap |-> res.st.subs[res.dep], seen |-> <<>>] >>
                    ELSE <<>>
        /\ (res.dep = 0) = (op'.result = "returned")
        /\ (m.val = m.h[Root][k].val) => (heap' = m.h /\ subs' = m.sb /\ stack' = <<>>)
        /\ DepTarget' = DepTarget /\ watchers' = watchers

\* what getValue(vm.$data, <<k>>) makes of the current state, set against the
\* state a proxy read has led to
SameAsGetValue(k) ==
    \E r \in {getValue(heap, subs, DepTarget, <<k>>)} :
        /\ ~r.threw
        /\ op'.val = r.val
        /\ op'.val = ValueAt(heap, ObjV(Root), <<k>>)
        /\ subs' = r.sb
        /\ heap' = heap /\ stack' = stack /\ DepTarget' = DepTarget /\ watchers' = watchers

\* C12: for every key k the data object had when the instance was built, a
\* read of vm.k yields the value stored at vm.$data.k and does to the
\* subscriber sets what a read of vm.$data.k does, and a write vm.k = v leaves
\* the state a write of vm.$data.k = v leaves: same stored value, same Dep
\* notified with the same subscribers, nothing at all when v is the stored
\* value.
C12_ProxyIsData ==
    [][ /\ \A k \in ProxyKeys : \A vs \in ValueSpecs :
              ProxyWrite(k, vs) => SameAsSetValue(k, vs)
        /\ \A k \in ProxyKeys : ProxyRead(k) => SameAsGetValue(k) ]_vars

\* a write through the proxy changed a tracked value and the observer of it
\* got its callback
C12_Witness ==
    /\ op.kind = "pwrite" /\ op.result = "returned" /\ stack = <<>>
    /\ op.val # op.pre /\ op.tracked # 0
    /\ heap[Root][op.path[1]].val = op.val
    /\ \E w \in 1..Len(watchers) : calls[w].n = 1 /\ watchers[w].exp = PA

\* C13: the Dep behind an intercepted slot is the one made when the slot was
\* first intercepted, through every step, and it keeps every observer it
\* held.
C13_OneDepPerSlot ==
    [][ \A o \in 1..Len(heap) : \A k \in Keys :
          heap[o][k].dep # 0
            => /\ heap'[o][k].dep = heap[o][k].dep
               /\ Range(subs[heap[o][k].dep]) \subseteq Range(subs'[heap'[o][k].dep]) ]_vars

\* C14: a step in which no Observer is constructed (an external read or
\* write, an update() whose callback builds nothing, a return) leaves every
\* subscriber set as it was.
C14_OnlyConstructorsSubscribe ==
    [][ Len(watchers') = Len(watchers)
          => \A d \in 1..Len(subs) : subs'[d] = subs[d] ]_vars

\* the Deps of sb observer w is registered in
DepsIn(sb, w) == {d \in 1..Len(sb) : w \in Range(sb[d])}

\* C15: an observer whose constructor returned normally is, from that
\* return on and through every later step, registered in exactly the Deps
\* of the slots its recording pass read; and when a write has come back to
\* its caller, every such observer whose callback ran is registered in the
\* Dep of the written slot: a write to a slot it did not read (a sibling
\* property, a slot of an unrelated path) does not invoke it.
C15_ExactlyRecorded ==
    /\ [][ /\ \A w \in (Len(watchers) + 1)..Len(watchers') :
                 watchers'[w].ok
                    => DepsIn(subs', w) = PathDeps(heap', ObjV(Root), watchers'[w].exp)
           /\ \A w \in 1..Len(watchers) :
                 watchers[w].ok => DepsIn(subs', w) = DepsIn(subs, w) ]_vars
    /\ [](( Done /\ op.kind = "write" )
            => \A w \in 1..Len(watchers) :
                  (watchers[w].ok /\ calls[w].n > 0)
                     => (op.tracked # 0 /\ op.tracked \in DepsOf(w)))

\* a.b.d was changed next to an observer of a.b.c of the same object, which
\* sits in the Deps of a, b and c and was not called
C15_Witness ==
    /\ Done /\ WroteTracked /\ Changed /\ op.path = PABD /\ op.result = "returned"
    /\ \E w \in 1..Len(watchers) :
          /\ watchers[w].ok /\ watchers[w].exp = PABC /\ watchers[w].at = op.obj
          /\ Cardinality(DepsOf(w)) = 3
          /\ op.tracked \notin DepsOf(w)
          /\ calls[w].n = 0

RECURSIVE DeepTracked(_, _)
\* every own key of value v, and of the objects below it, has an accessor
DeepTracked(h, v) ==
    v.t = "obj" => \A k \in Keys :
                      h[v.v][k].has => (h[v.v][k].dep # 0 /\ DeepTracked(h, h[v.v][k].val))

\* C16 as stated: in every state, the value of every tracked property is
\* intercepted through and through: each own key of it, recursively, is an
\* intercepted slot.
C16_NoPartialSubtree ==
    \A o \in 1..Len(heap) : \A k \in Keys :
        heap[o][k].dep # 0 => DeepTracked(heap, heap[o][k].val)

\* the objects of h that are the root or the value of a tracked property
TrackedObjs(h) ==
    {Root} \cup UNION {{h[o][k].val.v : k \in {j \in Keys : h[o][j].dep # 0 /\ h[o][j].val.t = "obj"}} :
                        o \in 1..Len(h)}

\* the own keys of those objects that have no accessor
PlainUnder(h) ==
    UNION {{<<o, k>> : k \in {j \in Keys : h[o][j].has /\ h[o][j].dep = 0}} :
                o \in TrackedObjs(h)}

\* a setValue step whose assignment met a slot without an accessor
PlainWriteStep ==
    nops' = nops + 1 /\ op'.kind = "write" /\ op'.obj # 0 /\ op'.tracked = 0

\* C16 as amended: the root and the value of every tracked property have an
\* accessor on every own key they had when they were intercepted; the only
\* way a key without an accessor comes to be under them is a write to a key
\* the container lacked at interception, which makes that one key a plain
\* property and intercepts nothing (an object stored by it stays as it was).
C16_PlainOnlyByAddedKey ==
    /\ PlainUnder(heap) = {}
    /\ [][ heap' # heap =>
             PlainUnder(heap') \subseteq
                PlainUnder(heap) \cup (IF PlainWriteStep
                                       THEN {<<op'.obj, Last(op'.path)>>} ELSE {}) ]_vars
    /\ []( (op.kind = "write" /\ op.obj # 0 /\ op.tracked = 0)
             => /\ Len(heap) = Len(op.atSet.heap)
                /\ \A o \in 1..Len(heap) : o # op.obj => heap[o] = op.atSet.heap[o] )

\* a fresh object was written to a.x, a key a's object never had: x is a
\* plain property under the tracked a and the object's keys have no accessor
C16_Witness ==
    /\ op.kind = "write" /\ op.path = PAX /\ op.tracked = 0 /\ op.val.t = "obj"
    /\ <<op.obj, "x">> \in PlainUnder(heap)
    /\ heap[Root]["a"].dep # 0 /\ heap[Root]["a"].val = ObjV(op.obj)
    /\ heap[op.val.v]["b"].has /\ heap[op.val.v]["b"].dep = 0

\* sequence q has no entry twice
NoDup(q) == \A i, j \in 1..Len(q) : q[i] = q[j] => i = j

\* C18: registering an observer that a Dep already holds changes nothing, so
\* however often a slot was read while an observer was the active one, its
\* Dep holds that observer once, a notification runs update() on it once and
\* its callback runs at most once per write.
C18_AddSubIdempotent ==
    /\ \A d \in 1..Len(subs) :
          /\ NoDup(subs[d])
          /\ \A w \in Range(subs[d]) : addSub(subs, d, w) = subs
    /\ \A d \in 1..Len(subs) : \A w \in 1..Len(watchers) :
          addSub(addSub(subs, d, w), d, w) = addSub(subs, d, w)
    /\ NoDup(lastNotify.seen)
    /\ \A i \in 1..Len(stack) : NoDup(stack[i].seen)
    /\ \A w \in 1..Len(watchers) : calls[w].n <= 1

\* an observer on a.x.y whose constructor threw stayed the active one: it was
\* registered in the Dep of a by its constructor and again by a later read of
\* a.b (which put it into the Dep of b); the notification of a ran update()
\* on it once
C18_Witness ==
    /\ lastNotify.dep = heap[Root]["a"].dep
    /\ \E w \in 1..Len(watchers) :
          /\ ~watchers[w].ok /\ watchers[w].exp = PAXY
          /\ w \in Range(subs[initData.heap[2]["b"].dep])
          /\ Cardinality({i \in 1..Len(lastNotify.seen) : lastNotify.seen[i] = w}) = 1

\* C19: when the notification of a write has ended and update() ran on an
\* observer whose path does not resolve in the data as written, the write
\* ended with the error; that observer is the last one update() ran on, its
\* callback and those of the observers of the Dep not yet visited did not
\* run, and the slot holds the value written.
C19_ErrorLeavesWrite ==
    (/\ Done /\ op.kind = "write" /\ lastNotify.dep # 0
     /\ \E i \in 1..Len(lastNotify.seen) : ~Resolves(heap, lastNotify.seen[i]))
        => /\ op.result = "threw"
           /\ \A i \in 1..Len(lastNotify.seen) :
                 ~Resolves(heap, lastNotify.seen[i]) <=> i = Len(lastNotify.seen)
           /\ calls[Last(lastNotify.seen)].n = 0
           /\ \A w \in Range(subs[lastNotify.dep]) :
                 w \notin Range(lastNotify.seen) => calls[w].n = 0
           /\ heap[op.obj][Last(op.path)].val = op.val
           /\ op.val # op.pre

\* null was written to a.b.c under an observer of a.b.c.x and, after it in
\* the Dep, an observer of a.b.c: the first re-read threw, the write ended
\* with the error, the second observer was not visited, c holds null
C19_Witness ==
    /\ Done /\ op.kind = "write" /\ op.path = PABC /\ op.result = "threw"
    /\ op.obj # 0 /\ lastNotify.dep # 0
    /\ op.val = Null /\ heap[op.obj]["c"].val = Null
    /\ Len(lastNotify.seen) = 1
    /\ watchers[lastNotify.seen[1]].exp = PABCX /\ watchers[lastNotify.seen[1]].ok
    /\ \E w \in Range(subs[lastNotify.dep]) :
          /\ w \notin Range(lastNotify.seen)
          /\ watchers[w].exp = PABC /\ watchers[w].ok /\ calls[w].n = 0

\* the observers on path e whose callback is of kind c
WritersOn(e, c) ==
    {w \in 1..Len(watchers) : watchers[w].exp = e /\ watchers[w].cb = c}

\* C17 as stated: when every callback either writes nothing or writes back a
\* value that does not change from one invocation to the next (a constant),
\* a write returns after finitely many callbacks: the notification never
\* grows the call stack until it overflows.
C17_ConstantWritersReturn ==
    (\A w \in 1..Len(watchers) : watchers[w].cb \in {"plain", "wrOne", "wrTwo"})
        => op.result # "overflow"

\* the write-backs settle: no callback writes a new value on every
\* invocation, and the callbacks writing to one property agree on the value
Settling ==
    \A e \in LoopPaths :
        /\ WritersOn(e, "wrNext") = {}
        /\ WritersOn(e, "wrOne") = {} \/ WritersOn(e, "wrTwo") = {}

\* the last operation is a changing write to a tracked property whose Dep
\* held a callback of kind c
WroteUnder(c) ==
    /\ WroteTracked /\ Changed
    /\ \E w \in Range(op.preSubs) : watchers[w].cb = c

\* C17 as amended: when the write-backs settle, every notification under
\* way comes back to the caller of the write, with at most two frames of
\* notify and at most two invocations of each callback (the same-value
\* short-circuit ends the re-entrant notify); a changing write under a
\* callback that writes another value on every invocation, or under two
\* callbacks that write different constants, never returns: the recursion
\* ends in the overflow of the call stack.
C17_SettlingReturns ==
    /\ (stack # <<>> /\ Settling) ~> (stack = <<>> /\ op.result = "returned")
    /\ [](Settling => /\ op.result # "overflow"
                       /\ Len(stack) <= 2
                       /\ \A w \in 1..Len(watchers) : calls[w].n <= 2)
    /\ []((WroteUnder("wrNext") \/ (WroteUnder("wrOne") /\ WroteUnder("wrTwo")))
             => op.result \in {"running", "overflow"})
    /\ (WroteUnder("wrNext") \/ (WroteUnder("wrOne") /\ WroteUnder("wrTwo")))
          ~> (stack = <<>> /\ op.result = "overflow")

\* null was written under a callback that writes 2: the callback ran in the
\* first notification and again in the one its own write started, where the
\* write of 2 over 2 did nothing; the write returned
C17_Witness ==
    /\ Done /\ WroteTracked /\ op.val = Null /\ op.result = "returned" /\ Settling
    /\ heap[op.obj][Last(op.path)].val = Prim(2)
    /\ \E w \in Range(op.preSubs) :
          watchers[w].cb = "wrTwo" /\ calls[w].n = 2 /\ calls[w].arg = Prim(2)

TypeOK ==
    /\ DepTarget \in 0..Len(watchers)
    /\ \A d \in 1..Len(subs) : Range(subs[d]) \subseteq 1..Len(watchers)
    /\ Len(calls) = Len(watchers)

====
